---- MODULE Spec2Model ----
(***************************************************************************)
(* Model of the C memory padding visualization (src/main.c).               *)
(*                                                                         *)
(* The program declares two structs (name_t, human_t), prints the layout   *)
(* the compiler gave them (dump_layout) and draws a byte map of human_t    *)
(* in a fixed 32-slot buffer (visualize).                                  *)
(*                                                                         *)
(* The layout calculator of the program is the compiler: offsetof, sizeof  *)
(* and alignof of a declared struct.  They are modelled by the natural     *)
(* alignment rule of the C ABIs, the rule the comments at lines 26-34 and  *)
(* 60 of src/main.c spell out for human_t.  The sizes and alignments of    *)
(* int, double and char* are implementation-defined and are drawn from the *)
(* targets listed in Targets.                                              *)
(*                                                                         *)
(* Two specifications:                                                     *)
(*   Spec        main() on one of the targets: dump_layout, then visualize *)
(*               one step per loop iteration.                              *)
(*   SpecLayout  the layout calculator alone, on struct declarations grown *)
(*               one member at a time from a bounded set of member types.  *)
(***************************************************************************)
EXTENDS Integers, Sequences, FiniteSets

VARIABLES
    fields,     \* the struct declaration under layout: sequence of [alignment, size]
    layout,     \* what the compiler computed for it: offsets, total_size, total_alignment
    pc,         \* position of the program
    dumped,     \* what dump_layout printed
    sz,         \* visualize: size_t sz
    mem,        \* visualize: char mem[32]
    spill,      \* bytes stored past the end of mem (undefined behaviour that went unnoticed)
    i,          \* visualize: the loop index in use
    oF, oA, oH, oN, \* visualize: the four offsets
    touched,    \* history: every index at which mem was read or written
    overtag,    \* history: indices where a field marker was stored over another field marker
    header,     \* printed: the value shown in "Byte offsets 0..%zu"
    ruler,      \* printed: the address ruler, one entry per column
    tags,       \* printed: the tag line, one entry per column
    legend,     \* printed: whether the legend line was written
    ret         \* exit status of main: "none" until it returns, then "0"

vars == <<fields, layout, pc, dumped, sz, mem, spill, i, oF, oA, oH, oN,
          touched, overtag, header, ruler, tags, legend, ret>>

progVars == <<pc, dumped, sz, mem, spill, i, oF, oA, oH, oN,
              touched, overtag, header, ruler, tags, legend, ret>>

----------------------------------------------------------------------------
(* Bounds and program constants *)

\* longest struct declaration SpecLayout builds
MaxFields == 4

\* char mem[32]
MemCap == 32

----------------------------------------------------------------------------
(* Member types *)

FieldSpec(a, s) == [alignment |-> a, size |-> s]

\* sizeof(char) = 1 and alignof(char) = 1 on every target
CharT == FieldSpec(1, 1)

\* The targets the program can be built for: size and alignment of int,
\* double and char*.
Targets ==
    { [name |-> "LP64",     int |-> FieldSpec(4, 4), double |-> FieldSpec(8, 8), ptr |-> FieldSpec(8, 8)],
      [name |-> "ILP32-a8", int |-> FieldSpec(4, 4), double |-> FieldSpec(8, 8), ptr |-> FieldSpec(4, 4)],
      [name |-> "ILP32-a4", int |-> FieldSpec(4, 4), double |-> FieldSpec(4, 8), ptr |-> FieldSpec(4, 4)],
      [name |-> "CHERI128", int |-> FieldSpec(4, 4), double |-> FieldSpec(8, 8), ptr |-> FieldSpec(16, 16)] }

LP64 == CHOOSE t \in Targets : t.name = "LP64"

----------------------------------------------------------------------------
(* The layout calculator: offsetof, sizeof, alignof of a struct declaration *)

Max(a, b) == IF a >= b THEN a ELSE b

\* mutants of RoundUp
RoundUp_none(c, a) == c
RoundUp_next(c, a) == ((c \div a) + 1) * a

\* the cursor rounded up to the next multiple of the alignment
RoundUp(c, a) == ((c + a - 1) \div a) * a

RECURSIVE Cursor(_, _)
RECURSIVE alignof(_)

\* mutant of offsetof: members aligned to the alignment of the whole struct
offsetof_structalign(fs, k) == RoundUp(Cursor(fs, k - 1), alignof(fs))

\* offset of member k (1-based) of the struct declared as fs
offsetof(fs, k) == RoundUp(Cursor(fs, k - 1), fs[k].alignment)

\* the end of member k: where the next member would start without padding
Cursor(fs, k) == IF k = 0 THEN 0 ELSE offsetof(fs, k) + fs[k].size

\* alignment of the struct: the largest alignment of its members, 1 without members
alignof(fs) ==
    IF fs = <<>> THEN 1
    ELSE Max(fs[Len(fs)].alignment, alignof(SubSeq(fs, 1, Len(fs) - 1)))

\* mutant of sizeof: no trailing padding
sizeof_notrail(fs) == Cursor(fs, Len(fs))

\* size of the struct: the end of the last member rounded up to the struct's alignment
sizeof(fs) == RoundUp(Cursor(fs, Len(fs)), alignof(fs))

compute_layout(fs) ==
    [ offsets         |-> [k \in 1..Len(fs) |-> offsetof(fs, k)],
      total_size      |-> sizeof(fs),
      total_alignment |-> alignof(fs) ]

\* typedef struct Name { char* first; char* last; } name_t;
NameFields(t) == <<t.ptr, t.ptr>>

\* name_t as a member type
NameT(t) == FieldSpec(alignof(NameFields(t)), sizeof(NameFields(t)))

\* typedef struct Human { char first_initial; int age; double height; name_t name; } human_t;
HumanFields(t) == <<CharT, t.int, t.double, NameT(t)>>

----------------------------------------------------------------------------
(* SpecLayout: the layout calculator on bounded struct declarations *)

\* member types a declaration is built from: char, short, int, double, name_t (LP64),
\* int[0], char[3], alignas(8) char
FieldTypes ==
    { CharT, FieldSpec(2, 2), LP64.int, LP64.double, NameT(LP64),
      FieldSpec(4, 0), FieldSpec(1, 3), FieldSpec(8, 1) }

Idle ==
    /\ pc = "declared"
    /\ dumped = <<>>
    /\ sz = 0
    /\ mem = <<>>
    /\ spill = <<>>
    /\ i = 0
    /\ oF = 0 /\ oA = 0 /\ oH = 0 /\ oN = 0
    /\ touched = {}
    /\ overtag = {}
    /\ header = <<>>
    /\ ruler = <<>>
    /\ tags = <<>>
    /\ legend = FALSE
    /\ ret = "none"

InitLayout ==
    /\ fields = <<>>
    /\ layout = compute_layout(fields)
    /\ Idle

\* one more member is declared at the end of the struct and the layout is computed again
AddMember ==
    /\ pc = "declared"
    /\ Len(fields) < MaxFields
    /\ \E f \in FieldTypes :
         /\ fields' = Append(fields, f)
         /\ layout' = compute_layout(fields')
    /\ UNCHANGED progVars

NextLayout == AddMember

SpecLayout == InitLayout /\ [][NextLayout]_vars

----------------------------------------------------------------------------
(* Spec: main() = dump_layout(); visualize(); return 0 *)

NUL == "NUL"

FieldMarkers == {"F", "A", "H", "N"}

\* a byte found past the end of mem that the program did not store there
Garbage == "?"

\* mem[k], k < 32, after char mem[32] = {0}
ZeroedMem == [k \in 0..(MemCap - 1) |-> NUL]

Init ==
    /\ \E t \in Targets : fields = HumanFields(t)
    /\ layout = compute_layout(fields)
    /\ pc = "main"
    /\ dumped = <<>>
    /\ sz = 0
    /\ mem = ZeroedMem
    /\ spill = <<>>
    /\ i = 0
    /\ oF = 0 /\ oA = 0 /\ oH = 0 /\ oN = 0
    /\ touched = {}
    /\ overtag = {}
    /\ header = <<>>
    /\ ruler = <<>>
    /\ tags = <<>>
    /\ legend = FALSE
    /\ ret = "none"

\* sizeof(int), sizeof(double), sizeof(name_t) as visualize uses them
SizeofInt == fields[2].size
SizeofDouble == fields[3].size
SizeofName == fields[4].size

\* dump_layout(): the sizes and alignments of the four member types, the four
\* offsets, sizeof(human_t) and alignof(human_t)
DumpLayout ==
    /\ pc = "main"
    /\ dumped' = [ types   |-> fields,
                   offsets |-> layout.offsets,
                   size    |-> layout.total_size,
                   align   |-> layout.total_alignment ]
    /\ pc' = "visualize"
    /\ UNCHANGED <<fields, layout, sz, mem, spill, i, oF, oA, oH, oN,
                   touched, overtag, header, ruler, tags, legend, ret>>

\* size_t sz = sizeof(human_t); char mem[32] = {0}; and the first loop's i = 0
VisEnter ==
    /\ pc = "visualize"
    /\ sz' = layout.total_size
    /\ mem' = ZeroedMem
    /\ i' = 0
    /\ pc' = "init_loop"
    /\ UNCHANGED <<fields, layout, dumped, spill, oF, oA, oH, oN,
                   touched, overtag, header, ruler, tags, legend, ret>>

InBounds(k) == k >= 0 /\ k < MemCap

\* what the slot at index k holds, as far as the program stored it
Held(k) ==
    IF InBounds(k) THEN mem[k]
    ELSE IF k \in DOMAIN spill THEN spill[k] ELSE Garbage

\* the values a read of mem[k] can give: the slot's value inside the array; past
\* its end the behaviour is undefined, the read gives what was stored there or
\* something else
Load(k) == IF InBounds(k) THEN {mem[k]} ELSE {Held(k), Garbage}

\* mem[k] = c.  Past the end of the array the store is undefined behaviour; when
\* it goes unnoticed the byte lands next to the array.
Store(k, c) ==
    /\ touched' = touched \cup {k}
    /\ overtag' = IF c \in FieldMarkers /\ Held(k) \in FieldMarkers /\ Held(k) # c
                  THEN overtag \cup {k} ELSE overtag
    /\ IF InBounds(k)
       THEN /\ mem' = [mem EXCEPT ![k] = c]
            /\ spill' = spill
       ELSE /\ mem' = mem
            /\ spill' = [j \in (DOMAIN spill) \cup {k} |-> IF j = k THEN c ELSE spill[j]]

\* for (size_t i = 0; i < sz; i++) mem[i] = '.';
InitLoopEnd == sz

InitLoop ==
    /\ pc = "init_loop"
    /\ IF i < InitLoopEnd
       THEN /\ Store(i, ".")
            /\ i' = i + 1
            /\ pc' = pc
       ELSE /\ pc' = "offsets"
            /\ UNCHANGED <<mem, spill, i, touched, overtag>>
    /\ UNCHANGED <<fields, layout, dumped, sz, oF, oA, oH, oN,
                   header, ruler, tags, legend, ret>>

\* the four offsetof(human_t, ...) initialisers
GetOffsets ==
    /\ pc = "offsets"
    /\ oF' = layout.offsets[1]
    /\ oA' = layout.offsets[2]
    /\ oH' = layout.offsets[3]
    /\ oN' = layout.offsets[4]
    /\ pc' = "mark_F"
    /\ UNCHANGED <<fields, layout, dumped, sz, mem, spill, i,
                   touched, overtag, header, ruler, tags, legend, ret>>

\* mem[oF] = 'F'; and the age loop's i = oA
MarkF ==
    /\ pc = "mark_F"
    /\ Store(oF, "F")
    /\ i' = oA
    /\ pc' = "age_loop"
    /\ UNCHANGED <<fields, layout, dumped, sz, oF, oA, oH, oN,
                   header, ruler, tags, legend, ret>>

\* for (size_t i = oA; i < oA + sizeof(int); i++) mem[i] = 'A';
AgeLoopEnd == oA + SizeofInt

AgeLoop ==
    /\ pc = "age_loop"
    /\ IF i < AgeLoopEnd
       THEN /\ Store(i, "A")
            /\ i' = i + 1
            /\ pc' = pc
       ELSE /\ pc' = "height_loop"
            /\ i' = oH
            /\ UNCHANGED <<mem, spill, touched, overtag>>
    /\ UNCHANGED <<fields, layout, dumped, sz, oF, oA, oH, oN,
                   header, ruler, tags, legend, ret>>

\* for (size_t i = oH; i < oH + sizeof(double); i++) mem[i] = 'H';
HeightLoopEnd == oH + SizeofDouble

HeightLoop ==
    /\ pc = "height_loop"
    /\ IF i < HeightLoopEnd
       THEN /\ Store(i, "H")
            /\ i' = i + 1
            /\ pc' = pc
       ELSE /\ pc' = "name_loop"
            /\ i' = oN
            /\ UNCHANGED <<mem, spill, touched, overtag>>
    /\ UNCHANGED <<fields, layout, dumped, sz, oF, oA, oH, oN,
                   header, ruler, tags, legend, ret>>

\* mutant of NameLoopEnd: i <= oN + sizeof(name_t)
NameLoopEnd_inclusive == oN + SizeofName + 1

\* for (size_t i = oN; i < oN + sizeof(name_t); i++) mem[i] = 'N';
NameLoopEnd == oN + SizeofName

NameLoop ==
    /\ pc = "name_loop"
    /\ IF i < NameLoopEnd
       THEN /\ Store(i, "N")
            /\ i' = i + 1
            /\ pc' = pc
       ELSE /\ pc' = "pad_loop"
            /\ i' = 0
            /\ UNCHANGED <<mem, spill, touched, overtag>>
    /\ UNCHANGED <<fields, layout, dumped, sz, oF, oA, oH, oN,
                   header, ruler, tags, legend, ret>>

\* for (size_t i = 0; i < sz; i++) if (mem[i] == '.') mem[i] = 'P';
PadLoopEnd == sz

PadLoop ==
    /\ pc = "pad_loop"
    /\ IF i < PadLoopEnd
       THEN /\ \E c \in Load(i) :
                 IF c = "."
                 THEN Store(i, "P")
                 ELSE /\ touched' = touched \cup {i}
                      /\ UNCHANGED <<mem, spill, overtag>>
            /\ i' = i + 1
            /\ pc' = pc
       ELSE /\ pc' = "print_header"
            /\ UNCHANGED <<mem, spill, i, touched, overtag>>
    /\ UNCHANGED <<fields, layout, dumped, sz, oF, oA, oH, oN,
                   header, ruler, tags, legend, ret>>

\* printf("\nByte offsets 0..%zu:\n", sz - 1); and the ruler loop's i = 0.
\* sz >= 1: human_t holds a char.
PrintHeader ==
    /\ pc = "print_header"
    /\ header' = <<0, sz - 1>>
    /\ i' = 0
    /\ pc' = "print_ruler"
    /\ UNCHANGED <<fields, layout, dumped, sz, mem, spill, oF, oA, oH, oN,
                   touched, overtag, ruler, tags, legend, ret>>

\* for (size_t i = 0; i < sz; i++) printf("%2zu", i);
PrintRuler ==
    /\ pc = "print_ruler"
    /\ IF i < sz
       THEN /\ ruler' = Append(ruler, i)
            /\ i' = i + 1
            /\ pc' = pc
       ELSE /\ pc' = "print_tags"
            /\ i' = 0
            /\ ruler' = ruler
    /\ UNCHANGED <<fields, layout, dumped, sz, mem, spill, oF, oA, oH, oN,
                   touched, overtag, header, tags, legend, ret>>

\* for (size_t i = 0; i < sz; i++) printf(" %c", mem[i]);
PrintTags ==
    /\ pc = "print_tags"
    /\ IF i < sz
       THEN /\ \E c \in Load(i) : tags' = Append(tags, c)
            /\ touched' = touched \cup {i}
            /\ i' = i + 1
            /\ pc' = pc
       ELSE /\ pc' = "print_legend"
            /\ UNCHANGED <<tags, touched, i>>
    /\ UNCHANGED <<fields, layout, dumped, sz, mem, spill, oF, oA, oH, oN,
                   overtag, header, ruler, legend, ret>>

\* printf("Legend: ...")
PrintLegend ==
    /\ pc = "print_legend"
    /\ legend' = TRUE
    /\ pc' = "return"
    /\ UNCHANGED <<fields, layout, dumped, sz, mem, spill, i, oF, oA, oH, oN,
                   touched, overtag, header, ruler, tags, ret>>

\* return 0;
MainReturn ==
    /\ pc = "return"
    /\ ret' = "0"
    /\ pc' = "done"
    /\ UNCHANGED <<fields, layout, dumped, sz, mem, spill, i, oF, oA, oH, oN,
                   touched, overtag, header, ruler, tags, legend>>

\* the index the program is about to read or write in mem, -1 when it is not
\* at a mem access
AccessIndex ==
    CASE pc = "init_loop"   /\ i < InitLoopEnd   -> i
      [] pc = "mark_F"                           -> oF
      [] pc = "age_loop"    /\ i < AgeLoopEnd    -> i
      [] pc = "height_loop" /\ i < HeightLoopEnd -> i
      [] pc = "name_loop"   /\ i < NameLoopEnd   -> i
      [] pc = "pad_loop"    /\ i < PadLoopEnd    -> i
      [] pc = "print_tags"  /\ i < sz            -> i
      [] OTHER                                   -> -1

\* an access past the end of mem is undefined behaviour: besides going unnoticed
\* (Store, Load) it can end the program on the spot
Trap ==
    /\ AccessIndex >= MemCap
    /\ touched' = touched \cup {AccessIndex}
    /\ pc' = "trapped"
    /\ UNCHANGED <<fields, layout, dumped, sz, mem, spill, i, oF, oA, oH, oN,
                   overtag, header, ruler, tags, legend, ret>>

Next ==
    \/ DumpLayout
    \/ VisEnter
    \/ InitLoop
    \/ GetOffsets
    \/ MarkF
    \/ AgeLoop
    \/ HeightLoop
    \/ NameLoop
    \/ PadLoop
    \/ PrintHeader
    \/ PrintRuler
    \/ PrintTags
    \/ PrintLegend
    \/ MainReturn
    \/ Trap

Spec == Init /\ [][Next]_vars

----------------------------------------------------------------------------
(* Claims about the layout calculator, checked under SpecLayout *)

N == Len(fields)

EndOf(k) == layout.offsets[k] + fields[k].size

\* C1: every placed field's offset is a multiple of that field's own alignment.
C1_OffsetsAligned ==
    \A k \in 1..N : layout.offsets[k] % fields[k].alignment = 0

\* a declaration whose second member needed padding, and a later member too
C1_Witness ==
    /\ N >= 3
    /\ layout.offsets[2] > EndOf(1)
    /\ layout.offsets[3] > EndOf(2)
    /\ C1_OffsetsAligned

\* C2: consecutive fields do not overlap, the gap before field k+1 is smaller than
\* its alignment, and no smaller non-negative gap puts field k+1 on a multiple of
\* its alignment.
C2_OffsetMonotonicity ==
    \A k \in 1..(N - 1) :
        LET gap == layout.offsets[k + 1] - EndOf(k)
            a   == fields[k + 1].alignment
        IN  /\ EndOf(k) <= layout.offsets[k + 1]
            /\ gap < a
            /\ (EndOf(k) + gap) % a = 0
            /\ \A g \in 0..(gap - 1) : (EndOf(k) + g) % a # 0

\* a gap of 7 bytes (the largest an alignment of 8 allows) next to a gap of 0
C2_Witness ==
    /\ N >= 3
    /\ fields[2].alignment = 8
    /\ layout.offsets[2] - EndOf(1) = 7
    /\ layout.offsets[3] = EndOf(2)
    /\ C2_OffsetMonotonicity

MaxAlignment == IF N = 0 THEN 1 ELSE CHOOSE a \in {fields[k].alignment : k \in 1..N} :
                                        \A k \in 1..N : fields[k].alignment <= a

LastEnd == IF N = 0 THEN 0 ELSE EndOf(N)

\* C3: total_alignment is the largest field alignment (1 without fields) and
\* total_size is the smallest multiple of total_alignment that is >= the end of
\* the last placed field.
C3_TrailingPadding ==
    /\ layout.total_alignment = MaxAlignment
    /\ layout.total_size % layout.total_alignment = 0
    /\ layout.total_size >= LastEnd
    /\ \A m \in LastEnd..(layout.total_size - 1) : m % layout.total_alignment # 0

\* a declaration that ends off its alignment: trailing padding is inserted, and
\* the largest alignment is not that of the last field
C3_Witness ==
    /\ N >= 2
    /\ fields[N].alignment < layout.total_alignment
    /\ layout.total_size > LastEnd
    /\ C3_TrailingPadding

HumanLP64 == HumanFields(LP64)

Reversed(s) == [k \in 1..Len(s) |-> s[Len(s) + 1 - k]]

\* C5: char, int, double, pair-of-pointers in that order are placed at 0, 4, 8, 16
\* with total_size 32; in the reversed order at 0, 16, 24, 28 with total_size 32.
C5_ReorderingScenario ==
    /\ fields = HumanLP64 =>
         /\ layout.offsets = <<0, 4, 8, 16>>
         /\ layout.total_size = 32
    /\ fields = Reversed(HumanLP64) =>
         /\ layout.offsets = <<0, 16, 24, 28>>
         /\ layout.total_size = 32

\* the reversed declaration has been laid out, with offsets other than the forward ones
C5_Witness ==
    /\ fields = Reversed(HumanLP64)
    /\ layout.offsets = <<0, 16, 24, 28>>
    /\ layout.offsets # compute_layout(HumanLP64).offsets
    /\ layout.total_size = compute_layout(HumanLP64).total_size

\* C9: declaring one more field, whatever its alignment, leaves the offsets of the
\* fields before it as they were; so two declarations that share their first
\* fields agree on the offsets of those fields.
C9_PrefixOffsetsKept ==
    [][ \A k \in 1..Len(fields) :
           /\ k \in DOMAIN layout'.offsets
           /\ layout'.offsets[k] = layout.offsets[k] ]_vars

\* a field whose alignment is larger than every alignment before it was appended:
\* it raised total_alignment and total_size, and got an offset of its own
C9_Witness ==
    /\ N = 3
    /\ fields[3].alignment = 8
    /\ fields[1].alignment = 1
    /\ fields[2].alignment = 4
    /\ layout.offsets[2] = 4
    /\ layout.total_alignment = 8
    /\ layout.offsets[3] = 8

----------------------------------------------------------------------------
(* Claims about visualize, checked under Spec *)

\* the marker visualize stores for member k: 'F', 'A', 'H', 'N'
Markers == <<"F", "A", "H", "N">>

Covers(k, b) == layout.offsets[k] <= b /\ b < layout.offsets[k] + fields[k].size

\* the tag byte b of the record should carry: its field's marker, or 'P'
ExpectedTag(b) ==
    IF \E k \in 1..Len(fields) : Covers(k, b)
    THEN Markers[CHOOSE k \in 1..Len(fields) : Covers(k, b)]
    ELSE "P"

\* the padding pass is over: the byte map is built
ByteMapBuilt ==
    pc \in {"print_header", "print_ruler", "print_tags", "print_legend", "return", "done"}

Tagged(c) == {b \in DOMAIN mem : mem[b] = c}

CoverageOf(total) ==
    /\ \A b \in 0..(total - 1) : b \in DOMAIN mem /\ mem[b] \in FieldMarkers \cup {"P"}
    /\ \A k \in 1..Len(fields) : Cardinality(Tagged(Markers[k])) = fields[k].size
    /\ \A b \in 0..(total - 1) :
           b \in DOMAIN mem => (mem[b] = "P" <=> ~ \E k \in 1..Len(fields) : Covers(k, b))

\* C4: once the byte map is built, every byte index in [0, total_size) carries a
\* field marker or the padding marker, each field's marker is on as many bytes as
\* the field's size, and the padding bytes are those no field covers.
C4_ByteCoverage == ByteMapBuilt => CoverageOf(layout.total_size)

\* C4 on the targets whose human_t fits the 32 slots of mem
C4_ByteCoverageWithinCapacity ==
    (ByteMapBuilt /\ layout.total_size <= MemCap) => CoverageOf(layout.total_size)

\* the placed fields' byte ranges intersect
Overlap ==
    \E j, k \in 1..Len(fields) :
        /\ j < k
        /\ \E b \in 0..(layout.total_size - 1) : Covers(j, b) /\ Covers(k, b)

Ended == pc \in {"done", "trapped"}

NoDiagram == header = <<>> /\ ruler = <<>> /\ tags = <<>> /\ legend = FALSE

CompleteCorrectDiagram ==
    /\ header = <<0, layout.total_size - 1>>
    /\ ruler = [b \in 1..layout.total_size |-> b - 1]
    /\ tags = [b \in 1..layout.total_size |-> ExpectedTag(b - 1)]
    /\ legend = TRUE

\* the program ended otherwise than by returning 0
ErrorReported == Ended /\ ret # "0"

\* C7: fields with intersecting byte ranges give an error and no diagram; no byte
\* that carries a field's marker is tagged with another field's; and render ends
\* with a complete correct diagram or with an error and no diagram.
C7_OverlapErrorOrCorrectDiagram ==
    /\ Overlap => (NoDiagram /\ (Ended => ErrorReported))
    /\ overtag = {}
    /\ Ended => (CompleteCorrectDiagram \/ (NoDiagram /\ ErrorReported))

\* C8: when total_size exceeds the capacity of the byte map, no slot is written,
\* no diagram is emitted, an error is reported, and the layout result is intact.
C8_CapacityError ==
    layout.total_size > MemCap =>
        /\ touched = {}
        /\ mem = ZeroedMem /\ spill = <<>>
        /\ NoDiagram
        /\ Ended => ErrorReported
        /\ layout = compute_layout(fields)

\* the layout C10 is about: sz = 32, offsets 0, 4, 8, 16, sizes 1, 4, 8, 16
HumanLayout32 ==
    /\ layout.total_size = 32
    /\ layout.offsets = <<0, 4, 8, 16>>
    /\ [k \in 1..Len(fields) |-> fields[k].size] = <<1, 4, 8, 16>>

\* C10: for the 32-byte layout of human_t, every index at which visualize reads
\* or writes mem, or is about to, lies in [0, 32).
C10_MemIndexInBounds ==
    HumanLayout32 =>
        /\ touched \subseteq 0..(MemCap - 1)
        /\ AccessIndex # -1 => InBounds(AccessIndex)

\* visualize ran to the end on the 32-byte layout and went through every slot,
\* the last one, 31, included
C10_Witness ==
    /\ HumanLayout32
    /\ pc = "done"
    /\ touched = 0..(MemCap - 1)
    /\ mem[MemCap - 1] = "N"

====
